---- MODULE Spec2Model ----
(***************************************************************************)
(* scripts/generate_embeddings.py: a one-shot batch pipeline               *)
(*   import guard -> existence check -> load -> model init -> build texts  *)
(*   -> embed loop with progress -> np.array -> makedirs -> np.save        *)
(*   -> json.dump                                                          *)
(* The state is the process (its position and locals), its environment     *)
(* (installed libraries, the corpus file) and the output directory on disk.*)
(* Strings are sequences of one-character strings.                         *)
(***************************************************************************)
EXTENDS Integers, Sequences, FiniteSets, TLC

\* ---------------------------------------------------------------- constants

DIMENSION == 384
PROGRESS_EVERY == 1000
BAR_WIDTH == 50

\* Bounds of the model.
MaxN == 2
MaxRuns == 3
MaxThousands == 2

\* ---------------------------------------------------------------- strings

Sep == <<":", " ">>

T1 == <<"1", ":", "1">>
T2 == <<"1", ":", "2">>
X1 == <<"I", "n">>
X2 == <<>>

Genesis == <<"G", "e", "n", "e", "s", "i", "s", " ", "1", ":", "1">>
Beginning == <<"I", "n", " ", "t", "h", "e", " ", "b", "e", "g", "i", "n",
               "n", "i", "n", "g", ".", ".", ".">>

\* ---------------------------------------------------------------- records

V1 == [verse_title |-> T1, scripture_text |-> X1]
V2 == [verse_title |-> T2, scripture_text |-> X2]
NoTitle == [scripture_text |-> X1]
NoText == [verse_title |-> T2]

Records == {V1, V2, NoTitle, NoText}

WellFormed(s) == "verse_title" \in DOMAIN s /\ "scripture_text" \in DOMAIN s

SeqsUpTo(S, n) == UNION {[1..m -> S] : m \in 0..n}

\* The corpus file: absent, or a JSON array of at most MaxN records.
InputFiles ==
  {[exists |-> FALSE, records |-> <<>>]}
    \cup {[exists |-> TRUE, records |-> r] : r \in SeqsUpTo(Records, MaxN)}

\* ---------------------------------------------------------------- pure parts

\* mutant: the separator without its space
get_verse_text_NoSpace(scripture) ==
  scripture.verse_title \o <<":">> \o scripture.scripture_text

get_verse_text(scripture) ==
  scripture.verse_title \o Sep \o scripture.scripture_text

\* The vector the model yields for a text: DIMENSION components that are a
\* function of the text alone (deterministic inference), kept symbolically.
Embed(text) == [dim |-> DIMENSION, of |-> text]

\* np.array(list, dtype=float32): rows stacked; an empty list gives the
\* one-dimensional empty array of shape (0,).
np_array(list) ==
  [shape |-> IF Len(list) = 0 THEN <<0>> ELSE <<Len(list), list[1].dim>>,
   data |-> list]

metadata_of(scriptures_) ==
  [i \in 1..Len(scriptures_) |-> [verse_title |-> scriptures_[i].verse_title]]

\* int(pct // 2) with pct = ((i + 1) / total) * 100 in binary floating point:
\* floor(50 k / total), except that where 50 k / total is a whole number below
\* 50 the rounded product may fall just under it (0.58 * 100 < 58).
BarFill(k, total_) ==
  LET e == (BAR_WIDTH * k) \div total_
  IN IF k < total_ /\ (BAR_WIDTH * k) % total_ = 0 /\ e > 0 THEN {e - 1, e} ELSE {e}

Spaces(n) == IF BAR_WIDTH - n > 0 THEN BAR_WIDTH - n ELSE 0

ProgressLine(k, total_, n) ==
  [count |-> k, total |-> total_, eq |-> n, sp |-> Spaces(n),
   pct_num |-> 100 * k, pct_den |-> total_]

\* ---------------------------------------------------------------- state

VARIABLES
  pc,               \* position of the process
  libsInstalled,    \* fastembed and numpy importable
  inputFile,        \* the corpus file at SCRIPTURE_PATH
  scriptures,       \* main(): scriptures
  modelInit,        \* main(): model constructed
  texts,            \* main(): texts
  total,            \* main(): total
  embeddings_list,  \* main(): embeddings_list
  progress,         \* progress lines printed by the loop
  embeddings_array, \* main(): embeddings_array
  outDir,           \* OUTPUT_DIR exists
  embFile,          \* data/scripture_embeddings.npy
  metaFile,         \* data/scripture_metadata.json
  exitCode,         \* -1 while running
  uncaught,         \* the uncaught exception that ended the process
  runs,             \* invocations so far
  trace,            \* history: the stages this invocation has executed
  disk0,            \* history: the output directory when this invocation started
  failedBetween,    \* history: a run failed between the two writes, none completed since
  ref               \* history: one completed run, remembered

vars == <<pc, libsInstalled, inputFile, scriptures, modelInit, texts, total,
          embeddings_list, progress, embeddings_array, outDir, embFile,
          metaFile, exitCode, uncaught, runs, trace, disk0, failedBetween, ref>>

locals == <<scriptures, modelInit, texts, total, embeddings_list, progress,
            embeddings_array>>
env == <<libsInstalled, inputFile>>
disk == <<outDir, embFile, metaFile>>
hist == <<runs, disk0, failedBetween, ref>>

NoFile == [state |-> "absent", shape |-> <<>>, data |-> <<>>]
PartialFile == [state |-> "partial", shape |-> <<>>, data |-> <<>>]
NoArray == [shape |-> <<>>, data |-> <<>>]
NoRef == [set |-> FALSE, input |-> <<>>, emb |-> NoFile, meta |-> NoFile]

Disk == [outDir |-> outDir, embFile |-> embFile, metaFile |-> metaFile]

Terminated == pc \in {"done", "exit"}

FreshLocals ==
  /\ scriptures = <<>>
  /\ modelInit = FALSE
  /\ texts = <<>>
  /\ total = 0
  /\ embeddings_list = <<>>
  /\ progress = <<>>
  /\ embeddings_array = NoArray

\* a new process: every local of main() is unset
ResetLocals ==
  /\ scriptures' = <<>>
  /\ modelInit' = FALSE
  /\ texts' = <<>>
  /\ total' = 0
  /\ embeddings_list' = <<>>
  /\ progress' = <<>>
  /\ embeddings_array' = NoArray

Init ==
  /\ pc = "import"
  /\ libsInstalled \in BOOLEAN
  /\ inputFile \in InputFiles
  /\ FreshLocals
  /\ outDir = FALSE
  /\ embFile = NoFile
  /\ metaFile = NoFile
  /\ exitCode = -1
  /\ uncaught = "none"
  /\ runs = 1
  /\ trace = <<>>
  /\ disk0 = [outDir |-> FALSE, embFile |-> NoFile, metaFile |-> NoFile]
  /\ failedBetween = FALSE
  /\ ref = NoRef

\* ---------------------------------------------------------------- actions

\* sys.exit(1)
Exit1 ==
  /\ pc' = "exit"
  /\ exitCode' = 1
  /\ uncaught' = "none"

\* an exception nobody catches: traceback, exit status 1
Raise(e) ==
  /\ pc' = "exit"
  /\ exitCode' = 1
  /\ uncaught' = e

Step(stage, next) ==
  /\ pc = stage
  /\ pc' = next
  /\ trace' = Append(trace, stage)

Go(stage, next) ==
  /\ Step(stage, next)
  /\ UNCHANGED <<exitCode, uncaught>>

\* mutant: the ImportError is swallowed and the script goes on
ImportGuard_Pass ==
  /\ pc = "import"
  /\ trace' = Append(trace, "import")
  /\ pc' = "check"
  /\ UNCHANGED <<exitCode, uncaught, env, locals, disk, hist>>

\* lines 19-25
ImportGuard ==
  /\ pc = "import"
  /\ trace' = Append(trace, "import")
  /\ IF libsInstalled
     THEN pc' = "check" /\ UNCHANGED <<exitCode, uncaught>>
     ELSE Exit1
  /\ UNCHANGED <<env, locals, disk, hist>>

\* mutant: the output directory is made before the input is looked for
CheckInput_DirFirst ==
  /\ pc = "check"
  /\ trace' = Append(trace, "check")
  /\ outDir' = TRUE
  /\ IF inputFile.exists
     THEN pc' = "load" /\ UNCHANGED <<exitCode, uncaught>>
     ELSE Exit1
  /\ UNCHANGED <<env, locals, embFile, metaFile, hist>>

\* lines 47-51
CheckInput ==
  /\ pc = "check"
  /\ trace' = Append(trace, "check")
  /\ IF inputFile.exists
     THEN pc' = "load" /\ UNCHANGED <<exitCode, uncaught>>
     ELSE Exit1
  /\ UNCHANGED <<env, locals, disk, hist>>

\* lines 35-38, 53-55: open() raises when the file is not there
LoadScriptures ==
  /\ pc = "load"
  /\ trace' = Append(trace, "load")
  /\ IF inputFile.exists
     THEN /\ scriptures' = inputFile.records
          /\ pc' = "model"
          /\ UNCHANGED <<exitCode, uncaught>>
     ELSE /\ Raise("FileNotFoundError")
          /\ UNCHANGED scriptures
  /\ UNCHANGED <<env, modelInit, texts, total, embeddings_list, progress,
                 embeddings_array, disk, hist>>

\* lines 57-60
InitModel ==
  /\ Go("model", "texts")
  /\ modelInit' = TRUE
  /\ UNCHANGED <<env, scriptures, texts, total, embeddings_list, progress,
                 embeddings_array, disk, hist>>

\* mutant: records that lack a field are skipped instead of failing
PrepareTexts_SkipMalformed ==
  /\ pc = "texts"
  /\ trace' = Append(trace, "texts")
  /\ LET ok == SelectSeq(scriptures, WellFormed)
     IN /\ texts' = [i \in 1..Len(ok) |-> get_verse_text(ok[i])]
        /\ total' = Len(ok)
  /\ pc' = "embed"
  /\ UNCHANGED <<exitCode, uncaught, env, scriptures, modelInit,
                 embeddings_list, progress, embeddings_array, disk, hist>>

\* lines 62-68: the list comprehension builds every text, or raises KeyError at
\* the first record that lacks a field
PrepareTexts ==
  /\ pc = "texts"
  /\ trace' = Append(trace, "texts")
  /\ IF \A i \in 1..Len(scriptures) : WellFormed(scriptures[i])
     THEN /\ texts' = [i \in 1..Len(scriptures) |-> get_verse_text(scriptures[i])]
          /\ total' = Len(scriptures)
          /\ pc' = "embed"
          /\ UNCHANGED <<exitCode, uncaught>>
     ELSE /\ Raise("KeyError")
          /\ UNCHANGED <<texts, total>>
  /\ UNCHANGED <<env, scriptures, modelInit, embeddings_list, progress,
                 embeddings_array, disk, hist>>

\* mutant: each vector is put at the front of the list
EmbedStep_Prepend ==
  /\ pc = "embed"
  /\ Len(embeddings_list) < Len(texts)
  /\ LET i == Len(embeddings_list)
     IN /\ embeddings_list' = <<Embed(texts[i + 1])>> \o embeddings_list
        /\ IF (i + 1) % PROGRESS_EVERY = 0 \/ i + 1 = total
           THEN \E n \in BarFill(i + 1, total) :
                  progress' = Append(progress, ProgressLine(i + 1, total, n))
           ELSE progress' = progress
  /\ trace' = Append(trace, "embed")
  /\ UNCHANGED <<pc, exitCode, uncaught, env, scriptures, modelInit, texts,
                 total, embeddings_array, disk, hist>>

\* mutant: the milestone test uses the zero-based index
EmbedStep_ZeroBased ==
  /\ pc = "embed"
  /\ Len(embeddings_list) < Len(texts)
  /\ LET i == Len(embeddings_list)
     IN /\ embeddings_list' = Append(embeddings_list, Embed(texts[i + 1]))
        /\ IF i % PROGRESS_EVERY = 0 \/ i = total
           THEN \E n \in BarFill(i + 1, total) :
                  progress' = Append(progress, ProgressLine(i + 1, total, n))
           ELSE progress' = progress
  /\ trace' = Append(trace, "embed")
  /\ UNCHANGED <<pc, exitCode, uncaught, env, scriptures, modelInit, texts,
                 total, embeddings_array, disk, hist>>

\* lines 72-76: one iteration of the loop; the generator yields the vector of
\* the next text, in input order
EmbedStep ==
  /\ pc = "embed"
  /\ Len(embeddings_list) < Len(texts)
  /\ LET i == Len(embeddings_list)
     IN /\ embeddings_list' = Append(embeddings_list, Embed(texts[i + 1]))
        /\ IF (i + 1) % PROGRESS_EVERY = 0 \/ i + 1 = total
           THEN \E n \in BarFill(i + 1, total) :
                  progress' = Append(progress, ProgressLine(i + 1, total, n))
           ELSE progress' = progress
  /\ trace' = Append(trace, "embed")
  /\ UNCHANGED <<pc, exitCode, uncaught, env, scriptures, modelInit, texts,
                 total, embeddings_array, disk, hist>>

\* mutant: a closing progress line is computed after the loop, dividing by total
ConvertArray_FinalProgress ==
  /\ pc = "embed"
  /\ Len(embeddings_list) = Len(texts)
  /\ trace' = Append(trace, "convert")
  /\ IF total = 0
     THEN /\ Raise("ZeroDivisionError")
          /\ UNCHANGED embeddings_array
     ELSE /\ pc' = "makedirs"
          /\ embeddings_array' = np_array(embeddings_list)
          /\ UNCHANGED <<exitCode, uncaught>>
  /\ UNCHANGED <<env, scriptures, modelInit, texts, total, embeddings_list,
                 progress, disk, hist>>

\* lines 72, 78-82: the generator is exhausted; the list becomes an array
ConvertArray ==
  /\ pc = "embed"
  /\ Len(embeddings_list) = Len(texts)
  /\ pc' = "makedirs"
  /\ trace' = Append(trace, "convert")
  /\ embeddings_array' = np_array(embeddings_list)
  /\ UNCHANGED <<exitCode, uncaught, env, scriptures, modelInit, texts, total,
                 embeddings_list, progress, disk, hist>>

\* mutant: the metadata is written as soon as the directory exists
MakeOutputDir_MetaFirst ==
  /\ Go("makedirs", "save_emb")
  /\ outDir' = TRUE
  /\ metaFile' = [state |-> "complete", shape |-> <<Len(scriptures)>>,
                  data |-> metadata_of(scriptures)]
  /\ UNCHANGED <<env, locals, embFile, hist>>

\* lines 84-85
MakeOutputDir ==
  /\ Go("makedirs", "save_emb")
  /\ outDir' = TRUE
  /\ UNCHANGED <<env, locals, embFile, metaFile, hist>>

\* lines 87-91
SaveEmbeddings ==
  /\ Go("save_emb", "save_meta")
  /\ embFile' = [state |-> "complete", shape |-> embeddings_array.shape,
                 data |-> embeddings_array.data]
  /\ UNCHANGED <<env, locals, outDir, metaFile, hist>>

\* line 89 raising OSError: the file is untouched or cut short
SaveEmbeddingsFail ==
  /\ Step("save_emb", "exit")
  /\ exitCode' = 1
  /\ uncaught' = "OSError"
  /\ embFile' \in {embFile, PartialFile}
  /\ UNCHANGED <<env, locals, outDir, metaFile, hist>>

\* mutant: the metadata file is opened for appending
SaveMetadata_Append ==
  /\ Step("save_meta", "done")
  /\ metaFile' = [state |-> "complete",
                  shape |-> <<Len(metaFile.data) + Len(scriptures)>>,
                  data |-> metaFile.data \o metadata_of(scriptures)]
  /\ exitCode' = 0
  /\ uncaught' = "none"
  /\ failedBetween' = FALSE
  /\ UNCHANGED <<env, locals, outDir, embFile, runs, disk0, ref>>

\* lines 93-101: the metadata list is built (KeyError for a record without a
\* title), the file is opened for writing and the list dumped; the process
\* then ends with status 0
SaveMetadata ==
  /\ pc = "save_meta"
  /\ trace' = Append(trace, "save_meta")
  /\ IF \A i \in 1..Len(scriptures) : "verse_title" \in DOMAIN scriptures[i]
     THEN /\ metaFile' = [state |-> "complete", shape |-> <<Len(scriptures)>>,
                          data |-> metadata_of(scriptures)]
          /\ pc' = "done"
          /\ exitCode' = 0
          /\ uncaught' = "none"
          /\ failedBetween' = FALSE
     ELSE /\ Raise("KeyError")
          /\ failedBetween' = TRUE
          /\ UNCHANGED metaFile
  /\ UNCHANGED <<env, locals, outDir, embFile, runs, disk0, ref>>

\* lines 96-97 raising OSError: open() failed and the file is untouched, or
\* the file was truncated by open() and the dump was cut short
SaveMetadataFail ==
  /\ Step("save_meta", "exit")
  /\ exitCode' = 1
  /\ uncaught' = "OSError"
  /\ metaFile' \in {metaFile, PartialFile}
  /\ failedBetween' = (metaFile' = metaFile)
  /\ UNCHANGED <<env, locals, outDir, embFile, runs, disk0, ref>>

\* lines 104-105: the script is started again; the output directory is what
\* the earlier invocations left
Rerun ==
  /\ Terminated
  /\ runs < MaxRuns
  /\ pc' = "import"
  /\ libsInstalled' \in BOOLEAN
  /\ inputFile' \in InputFiles
  /\ ResetLocals
  /\ exitCode' = -1
  /\ uncaught' = "none"
  /\ runs' = runs + 1
  /\ trace' = <<>>
  /\ disk0' = Disk
  /\ UNCHANGED <<disk, failedBetween, ref>>

Pipeline ==
  \/ ImportGuard
  \/ CheckInput
  \/ LoadScriptures
  \/ InitModel
  \/ PrepareTexts
  \/ EmbedStep
  \/ ConvertArray
  \/ MakeOutputDir
  \/ SaveEmbeddings
  \/ SaveMetadata

\* history only: remember one completed run, to compare later runs with
Snapshot ==
  /\ pc = "done"
  /\ ~ref.set
  /\ ref' = [set |-> TRUE, input |-> inputFile.records, emb |-> embFile,
             meta |-> metaFile]
  /\ UNCHANGED <<pc, exitCode, uncaught, trace, env, locals, disk, runs, disk0,
                 failedBetween>>

Next ==
  \/ Pipeline
  \/ SaveEmbeddingsFail
  \/ SaveMetadataFail
  \/ Rerun

\* Any number of invocations (up to MaxRuns), on any corpus file, with writes
\* that may fail.
Spec == Init /\ [][Next]_vars

NextNoFault ==
  \/ Pipeline
  \/ Rerun
  \/ Snapshot

\* The same without input/output errors.
SpecNoFault == Init /\ [][NextNoFault]_vars

\* ---------------------------------------------------------------- one run over wider inputs

TA == <<>>
TB == <<"a", ":", " ">>
XA == <<":", " ", "b">>

RichRecords ==
  {[verse_title |-> t, scripture_text |-> x] :
     t \in {TA, T1, TB, Genesis}, x \in {X2, X1, XA, Beginning}}

InitWith(files) ==
  /\ pc = "import"
  /\ libsInstalled = TRUE
  /\ inputFile \in files
  /\ FreshLocals
  /\ outDir = FALSE
  /\ embFile = NoFile
  /\ metaFile = NoFile
  /\ exitCode = -1
  /\ uncaught = "none"
  /\ runs = 1
  /\ trace = <<>>
  /\ disk0 = [outDir |-> FALSE, embFile |-> NoFile, metaFile |-> NoFile]
  /\ failedBetween = FALSE
  /\ ref = NoRef

TextFiles ==
  {[exists |-> TRUE, records |-> r] : r \in SeqsUpTo(RichRecords, MaxN) \ {<<>>}}

InitText == InitWith(TextFiles)

\* One invocation on a corpus of well-formed records with varied strings.
SpecText == InitText /\ [][Pipeline]_vars

Corpus(n) == [i \in 1..n |-> IF i % 2 = 1 THEN V1 ELSE V2]

CorpusSizes ==
  (0..MaxN)
    \cup {PROGRESS_EVERY - 1, PROGRESS_EVERY, PROGRESS_EVERY + 1,
          MaxThousands * PROGRESS_EVERY, MaxThousands * PROGRESS_EVERY + 1}

CorpusFiles == {[exists |-> TRUE, records |-> Corpus(n)] : n \in CorpusSizes}

InitCorpus == InitWith(CorpusFiles)

\* One invocation on a corpus large enough for the progress milestones.
SpecCorpus == InitCorpus /\ [][Pipeline]_vars

\* ---------------------------------------------------------------- properties

N == Len(inputFile.records)

IsPrefix(p, q) == Len(p) <= Len(q) /\ SubSeq(q, 1, Len(p)) = p

Last(q) == q[Len(q)]

InTrace(stage) == \E i \in 1..Len(trace) : trace[i] = stage

\* C1: a completed run on N records writes an embedding array of N rows and
\* 384 columns (shape (N, 384)) and a metadata list of N entries, N = 0
\* included.
C1_ShapeNx384 ==
  pc = "done" =>
    /\ embFile.state = "complete"
    /\ embFile.shape = <<N, DIMENSION>>
    /\ Len(embFile.data) = N
    /\ \A i \in 1..N : embFile.data[i].dim = DIMENSION
    /\ metaFile.state = "complete"
    /\ Len(metaFile.data) = N

\* For N >= 1 the written array has shape (N, 384) and the metadata N entries.
C1_ShapeNonEmpty ==
  (pc = "done" /\ N >= 1) =>
    /\ embFile.shape = <<N, DIMENSION>>
    /\ Len(embFile.data) = N
    /\ \A i \in 1..N : embFile.data[i].dim = DIMENSION
    /\ Len(metaFile.data) = N

\* C2: after a completed run, entry i of the metadata carries the title of
\* input record i and row i of the embedding array is the vector of the text
\* of input record i, for every i.
C2_Alignment ==
  pc = "done" =>
    /\ Len(metaFile.data) = N
    /\ Len(embFile.data) = N
    /\ \A i \in 1..N :
         /\ metaFile.data[i].verse_title = inputFile.records[i].verse_title
         /\ embFile.data[i] =
              Embed(inputFile.records[i].verse_title \o <<":", " ">>
                      \o inputFile.records[i].scripture_text)

C2_Witness ==
  /\ pc = "done"
  /\ N = 2
  /\ inputFile.records[1] # inputFile.records[2]

\* C3: with the input file missing the run ends with exit status 1 at the
\* existence check: the output directory and both artifacts are as they were
\* when the run started and the model is never initialised.
C3_MissingInput ==
  (libsInstalled /\ ~inputFile.exists) =>
    /\ pc \in {"import", "check", "exit"}
    /\ Disk = disk0
    /\ modelInit = FALSE
    /\ scriptures = <<>>
    /\ pc = "exit" => exitCode = 1 /\ uncaught = "none"
                      /\ trace = <<"import", "check">>

C3_Witness ==
  /\ pc = "exit"
  /\ libsInstalled
  /\ ~inputFile.exists
  /\ outDir = FALSE

\* C4: on the empty input array the run cannot fail or get stuck (no progress
\* line is computed, so nothing divides by total = 0) and ends with status 0,
\* an embedding array of 0 rows and the metadata array [].
C4_EmptyInput ==
  (libsInstalled /\ inputFile.exists /\ N = 0) =>
    /\ uncaught = "none"
    /\ pc # "exit"
    /\ progress = <<>>
    /\ pc # "done" => ENABLED Pipeline
    /\ pc = "done" =>
         /\ exitCode = 0
         /\ embFile.state = "complete"
         /\ embFile.shape[1] = 0
         /\ embFile.data = <<>>
         /\ metaFile.state = "complete"
         /\ metaFile.data = <<>>

C4_Witness ==
  /\ pc = "done"
  /\ inputFile.exists
  /\ N = 0
  /\ disk0.metaFile.data # <<>>

\* C5: with a required library missing the process ends with exit status 1 at
\* the import guard: main() never starts, nothing is read, and the output
\* directory and both artifacts are as they were.
C5_MissingLibs ==
  ~libsInstalled =>
    /\ pc \in {"import", "exit"}
    /\ FreshLocals
    /\ Disk = disk0
    /\ pc = "exit" => exitCode = 1 /\ uncaught = "none" /\ trace = <<"import">>

C5_Witness ==
  /\ pc = "exit"
  /\ ~libsInstalled
  /\ inputFile.exists
  /\ embFile.state = "complete"

Malformed ==
  /\ inputFile.exists
  /\ \E i \in 1..N : ~WellFormed(inputFile.records[i])

\* C6: with a record that lacks verse_title or scripture_text, wherever it
\* stands in the input, the run ends in an uncaught KeyError raised while the
\* texts are built: no vector has been requested, and the output directory
\* and both artifacts are as they were.
C6_MalformedRecord ==
  (libsInstalled /\ Malformed) =>
    /\ pc \in {"import", "check", "load", "model", "texts", "exit"}
    /\ texts = <<>>
    /\ embeddings_list = <<>>
    /\ Disk = disk0
    /\ pc \in {"import", "check", "load", "model", "texts"} => ENABLED Pipeline
    /\ pc = "exit" =>
         /\ exitCode = 1
         /\ uncaught = "KeyError"
         /\ trace = <<"import", "check", "load", "model", "texts">>

C6_Witness ==
  /\ pc = "exit"
  /\ uncaught = "KeyError"
  /\ N = 2
  /\ WellFormed(inputFile.records[1])
  /\ ~WellFormed(inputFile.records[2])
  /\ embFile.state = "complete"

\* C7: a completed run leaves the same two artifacts as any other completed
\* run on the same input, whatever the output directory held before.
C7_Rerun ==
  (pc = "done" /\ ref.set /\ ref.input = inputFile.records) =>
    /\ embFile = ref.emb
    /\ metaFile = ref.meta

C7_Witness ==
  /\ pc = "done"
  /\ ref.set
  /\ ref.input = inputFile.records
  /\ runs = 3
  /\ disk0.embFile # ref.emb
  /\ Len(disk0.metaFile.data) > N

\* C8: the text built for a record is its title, then ':' and ' ', then its
\* scripture text and nothing else; equal records give equal texts, the record
\* list is left as loaded, and "Genesis 1:1" with "In the beginning..." gives
\* "Genesis 1:1: In the beginning...".
C8_VerseText ==
  /\ Len(texts) \in {0, Len(scriptures)}
  /\ scriptures \in {<<>>, inputFile.records}
  /\ \A i \in 1..Len(texts) :
       LET title == scriptures[i].verse_title
           body == scriptures[i].scripture_text
           t == texts[i]
       IN /\ Len(t) = Len(title) + 2 + Len(body)
          /\ SubSeq(t, 1, Len(title)) = title
          /\ t[Len(title) + 1] = ":"
          /\ t[Len(title) + 2] = " "
          /\ SubSeq(t, Len(title) + 3, Len(t)) = body
          /\ (title = Genesis /\ body = Beginning) =>
               t = <<"G", "e", "n", "e", "s", "i", "s", " ", "1", ":", "1",
                     ":", " ",
                     "I", "n", " ", "t", "h", "e", " ", "b", "e", "g", "i",
                     "n", "n", "i", "n", "g", ".", ".", ".">>
  /\ \A i, j \in 1..Len(texts) :
       scriptures[i] = scriptures[j] => texts[i] = texts[j]

C8_Witness ==
  /\ Len(texts) = 2
  /\ scriptures[1] = [verse_title |-> Genesis, scripture_text |-> Beginning]
  /\ scriptures[2] = [verse_title |-> TB, scripture_text |-> XA]

Milestones(done, n) == {k \in 1..done : k % 1000 = 0 \/ k = n}

\* C9: the progress lines printed so far are, in increasing order, exactly
\* those of the vectors k received with k a multiple of 1000 or k = N; once
\* all N >= 1 vectors are in, the last line reads N/N, 100%, with a bar of 50
\* characters.
C9_Progress ==
  /\ {progress[j].count : j \in 1..Len(progress)}
       = Milestones(Len(embeddings_list), N)
  /\ \A j \in 1..(Len(progress) - 1) : progress[j].count < progress[j + 1].count
  /\ \A j \in 1..Len(progress) : progress[j].total = N
  /\ (N >= 1 /\ Len(embeddings_list) = N) =>
       /\ progress # <<>>
       /\ Last(progress).count = N
       /\ Last(progress).pct_num = 100 * Last(progress).pct_den
       /\ Last(progress).eq + Last(progress).sp = 50
       /\ Last(progress).eq = 50

C9_Witness ==
  /\ pc = "done"
  /\ N = 1001
  /\ Len(progress) = 2
  /\ progress[1].count = 1000
  /\ progress[1].eq < 50
  /\ progress[2].count = 1001

StageRank ==
  [import |-> 0, check |-> 1, load |-> 2, model |-> 3, texts |-> 4, embed |-> 5,
   convert |-> 6, makedirs |-> 7, save_emb |-> 8, save_meta |-> 9]

\* Rows and entries pair up: each row is the vector of a text that opens with
\* the title of the entry at the same index.
Describes(meta, emb) ==
  /\ Len(meta.data) = Len(emb.data)
  /\ \A i \in 1..Len(meta.data) :
       IsPrefix(meta.data[i].verse_title \o <<":", " ">>, emb.data[i].of)

NewEmbeddingsOldMetadata ==
  /\ embFile.state = "complete"
  /\ \/ metaFile.state = "absent"
     \/ metaFile.state = "complete" /\ ~Describes(metaFile, embFile)

====
